---- MODULE Spec2Model ----
(***************************************************************************)
(* A model of gpu-scratch (src/src/main.rs): a single-threaded program     *)
(* that acquires a GPU device, records one command buffer (a compute pass  *)
(* and a buffer-to-buffer copy), submits it, waits for it, and reads the   *)
(* output buffer back through an asynchronous mapping callback.            *)
(*                                                                         *)
(* The host program is a straight line of statements; `pc` names the       *)
(* statement that runs next.  The GPU library is the environment: a        *)
(* request that returns a Result may succeed or fail, the GPU timeline     *)
(* executes submitted commands on its own, a buffer's initial bytes are    *)
(* whatever the implementation left there, and the mapping callback is     *)
(* handed either success or an error.                                      *)
(***************************************************************************)
EXTENDS Integers, Sequences, FiniteSets

VARIABLES
    pc,          \* the statement of the host program that runs next
    ret,         \* what real_main returned: "pending", "Ok" or an error
    exitCode,    \* << >> while the process runs, <<code>> once it has exited
    stdout,      \* the lines written to standard output
    stderr,      \* the lines written to standard error
    size_arg,    \* the size given to the output buffer's descriptor
    instance,    \* whether the wgpu::Instance has been created
    adapter,     \* the state of the adapter request
    device,      \* the state of the device request
    buffers,     \* the buffers created on the device, in creation order
    objects,     \* labels of the other objects created on the device
    bind_group,  \* the entries of the bind group, <<>> until it is created
    encoder,     \* the command encoder and the pass open on it
    command_buffer, \* what construct_compute_shader returned, <<>> until then
    queue,       \* the submissions made to the queue
    gpu,         \* the GPU timeline: last completed submission, progress
    index,       \* real_main's local `index`: << >> until the submit, then <<i>>
    polls,       \* the results of the device polls, in order
    callbacks,   \* the results handed to the mapping callback, in order
    range_reads  \* the calls of get_mapped_range, by buffer

vars == << pc, ret, exitCode, stdout, stderr, size_arg, instance, adapter,
           device, buffers, objects, bind_group, encoder, command_buffer,
           queue, gpu, index, polls, callbacks, range_reads >>

----------------------------------------------------------------------------
(* Bounds of the model. *)

\* Buffer bytes are drawn from 0..MaxFill when a buffer is created.
MaxFill == 2

\* The parameterised specification tries output buffers of 0..MaxWords words.
MaxWords == 2

----------------------------------------------------------------------------
(* Program constants. *)

\* size_of::<u32>()
SizeOfU32 == 4

\* The output buffer holds 12 u32 words.
OutputWords == 12

\* A variant of the size below: the count of words taken for a count of
\* bytes, `size: 12`.
OutputBufferSize_WordsOnly == OutputWords

\* size: (12 * size_of::<u32>()) as u64
OutputBufferSize == OutputWords * SizeOfU32

\* pass.dispatch_workgroups(1, 0, 0)
DispatchX == 1
DispatchY == 0
DispatchZ == 0

\* pass.set_bind_group(0, ...) and BindGroupEntry { binding: 0, .. }
BindingSlot == 0

\* The exit codes Rust's runtime gives the Result that main returns:
\* Ok(()) is ExitCode::SUCCESS, Err(_) is ExitCode::FAILURE.
ExitSuccess == 0
ExitFailure == 1

\* The buffers, by creation order: real_main creates the output buffer
\* first, construct_compute_shader the intermediate one second.
OutputId == 1
IntermediateId == 2

----------------------------------------------------------------------------
(* Errors and their two renderings. *)

\* #[error("...")] on InitializeError: the Display text.
DisplayFmt(e) ==
    CASE e = "NoAdapter" -> "Unable to find GPU adapter!"
      [] e = "NoDevice"  -> "Unable to find GPU device!"
      [] e = "PollError" -> "<Display of wgpu::PollError>"
      [] e = "BufferAsyncError" -> "<Display of wgpu::BufferAsyncError>"
      [] OTHER -> "<Display>"

\* #[derive(Debug)] on InitializeError: the variant's name.
DebugFmt(e) ==
    CASE e = "NoAdapter" -> "NoAdapter"
      [] e = "NoDevice"  -> "NoDevice"
      [] e = "PollError" -> "<Debug of wgpu::PollError>"
      [] e = "BufferAsyncError" -> "<Debug of wgpu::BufferAsyncError>"
      [] OTHER -> "<Debug>"

\* A line of output: a prefix, a text, and the bytes of a byte-slice dump.
TextLine(prefix, text) ==
    [kind |-> "text", prefix |-> prefix, text |-> text, bytes |-> << >>]

\* println!("{:?}", &bytes[..]): the Debug rendering of a byte slice, which
\* lists every byte of the slice in order between brackets.
DumpLine(bytes) ==
    [kind |-> "bytes", prefix |-> "", text |-> "", bytes |-> bytes]

MarkerLine == TextLine("", "GPU Completed")

\* What Rust's runtime writes when main returns Err(e): "Error: {e:?}".
TerminationLine(e) == TextLine("Error: ", DebugFmt(e))

----------------------------------------------------------------------------
(* Buffers. *)

Fills == 0 .. MaxFill

FilledWith(size, fill) == [i \in 1 .. size |-> fill]

\* device.create_buffer(&BufferDescriptor { label, size, usage,
\* mapped_at_creation }); the bytes are the environment's, and `initial`
\* keeps them as they were at creation.
NewBuffer(label, size, usage, mapped, fill) ==
    [label |-> label, size |-> size, usage |-> usage,
     mapped_at_creation |-> mapped, map_state |-> "unmapped",
     data |-> FilledWith(size, fill), initial |-> FilledWith(size, fill)]

\* Buffer::size()
BufferSize(id) == buffers[id].size

\* A variant of the output buffer's usage below, with STORAGE added so that
\* the shader could write the output buffer directly.
OutputUsage_WithStorage == {"MAP_READ", "COPY_DST", "STORAGE"}

\* The usages the two descriptors ask for.
OutputUsage == {"MAP_READ", "COPY_DST"}
IntermediateUsage == {"STORAGE", "COPY_SRC"}

----------------------------------------------------------------------------
(* Commands. *)

Cmd(op, args, body) == [op |-> op, args |-> args, body |-> body]

NoEncoder == [state |-> "none", cmds |-> << >>, pass |-> << >>]

\* Groups of variables, for the UNCHANGED clauses.
hostVars == << ret, exitCode, stdout, stderr >>
initVars == << instance, adapter, device >>
recVars == << objects, bind_group, encoder, command_buffer >>
runVars == << queue, gpu, index, polls, callbacks, range_reads >>

----------------------------------------------------------------------------
(* The state before main runs. *)

InitWith(size) ==
    /\ pc = "instance_new"
    /\ ret = "pending"
    /\ exitCode = << >>
    /\ stdout = << >>
    /\ stderr = << >>
    /\ size_arg = size
    /\ instance = FALSE
    /\ adapter = "unrequested"
    /\ device = "unrequested"
    /\ buffers = << >>
    /\ objects = {}
    /\ bind_group = << >>
    /\ encoder = NoEncoder
    /\ command_buffer = << >>
    /\ queue = << >>
    /\ gpu = [completed |-> 0, executed |-> 0]
    /\ index = << >>
    /\ polls = << >>
    /\ callbacks = << >>
    /\ range_reads = << >>

\* The program as written: the output buffer has 12 * size_of::<u32>() bytes.
Init == InitWith(OutputBufferSize)

----------------------------------------------------------------------------
(* initialize_gpu *)

\* let gpu = wgpu::Instance::new(..);
InstanceNew ==
    /\ pc = "instance_new"
    /\ instance' = TRUE
    /\ pc' = "request_adapter"
    /\ UNCHANGED << hostVars, size_arg, adapter, device, buffers, recVars,
                    runVars >>

\* let Ok(adapter) = gpu.request_adapter(..).await
\*     else { return Err(InitializeError::NoAdapter) };
\* and the `?` of real_main on that Err.
RequestAdapter ==
    /\ pc = "request_adapter"
    /\ \E ok \in BOOLEAN :
          IF ok
          THEN /\ adapter' = "acquired"
               /\ pc' = "request_device"
               /\ ret' = ret
          ELSE /\ adapter' = "absent"
               /\ ret' = "NoAdapter"
               /\ pc' = "main_return"
    /\ UNCHANGED << exitCode, stdout, stderr, size_arg, instance, device,
                    buffers, recVars, runVars >>

\* let Ok((device, queue)) = adapter.request_device(..).await
\*     else { return Err(InitializeError::NoDevice) };
\* Ok((device, queue)), and the `?` of real_main.
RequestDevice ==
    /\ pc = "request_device"
    /\ \E ok \in BOOLEAN :
          IF ok
          THEN /\ device' = "acquired"
               /\ pc' = "create_output"
               /\ ret' = ret
          ELSE /\ device' = "failed"
               /\ ret' = "NoDevice"
               /\ pc' = "main_return"
    /\ UNCHANGED << exitCode, stdout, stderr, size_arg, instance, adapter,
                    buffers, recVars, runVars >>

----------------------------------------------------------------------------
(* real_main, up to the call of construct_compute_shader *)

\* let output = device.create_buffer(&BufferDescriptor { .. });
CreateOutputBuffer ==
    /\ pc = "create_output"
    /\ \E fill \in Fills :
          buffers' = Append(buffers,
                            NewBuffer("output-buffer", size_arg, OutputUsage,
                                      FALSE, fill))
    /\ pc' = "ccs_create_buffer"
    /\ UNCHANGED << hostVars, size_arg, initVars, recVars, runVars >>

----------------------------------------------------------------------------
(* construct_compute_shader(&device, &output) *)

\* A variant of the statement below: the intermediate buffer sized by the
\* program's constant instead of by output.size().
CcsCreateBuffer_FixedSize ==
    /\ pc = "ccs_create_buffer"
    /\ \E fill \in Fills :
          buffers' = Append(buffers,
                            NewBuffer("buffer-intermediate", OutputBufferSize,
                                      IntermediateUsage, FALSE, fill))
    /\ pc' = "ccs_create_shader_module"
    /\ UNCHANGED << hostVars, size_arg, initVars, recVars, runVars >>

\* let buffer = device.create_buffer(&BufferDescriptor {
\*     size: output.size(), usage: STORAGE | COPY_SRC, .. });
CcsCreateBuffer ==
    /\ pc = "ccs_create_buffer"
    /\ \E fill \in Fills :
          buffers' = Append(buffers,
                            NewBuffer("buffer-intermediate",
                                      BufferSize(OutputId),
                                      IntermediateUsage, FALSE, fill))
    /\ pc' = "ccs_create_shader_module"
    /\ UNCHANGED << hostVars, size_arg, initVars, recVars, runVars >>

\* let shader = device.create_shader_module(SHADER_OPTIONS);
CcsCreateShaderModule ==
    /\ pc = "ccs_create_shader_module"
    /\ objects' = objects \cup {"shader-main"}
    /\ pc' = "ccs_create_bind_group_layout"
    /\ UNCHANGED << hostVars, size_arg, initVars, buffers, bind_group,
                    encoder, command_buffer, runVars >>

\* let bind_group_layout = device.create_bind_group_layout(..);
CcsCreateBindGroupLayout ==
    /\ pc = "ccs_create_bind_group_layout"
    /\ objects' = objects \cup {"bind-group-layout"}
    /\ pc' = "ccs_create_pipeline_layout"
    /\ UNCHANGED << hostVars, size_arg, initVars, buffers, bind_group,
                    encoder, command_buffer, runVars >>

\* let pipeline_layout = device.create_pipeline_layout(..);
CcsCreatePipelineLayout ==
    /\ pc = "ccs_create_pipeline_layout"
    /\ objects' = objects \cup {"pipeline-layout-descriptor"}
    /\ pc' = "ccs_create_command_encoder"
    /\ UNCHANGED << hostVars, size_arg, initVars, buffers, bind_group,
                    encoder, command_buffer, runVars >>

\* let mut encoder = device.create_command_encoder(&ENCODER_OPTIONS);
CcsCreateCommandEncoder ==
    /\ pc = "ccs_create_command_encoder"
    /\ encoder' = [state |-> "recording", cmds |-> << >>, pass |-> << >>]
    /\ pc' = "ccs_create_compute_pipeline"
    /\ UNCHANGED << hostVars, size_arg, initVars, buffers, objects,
                    bind_group, command_buffer, runVars >>

\* let compute_pipeline = device.create_compute_pipeline(..);
CcsCreateComputePipeline ==
    /\ pc = "ccs_create_compute_pipeline"
    /\ objects' = objects \cup {"compile-pipeline"}
    /\ pc' = "ccs_create_bind_group"
    /\ UNCHANGED << hostVars, size_arg, initVars, buffers, bind_group,
                    encoder, command_buffer, runVars >>

\* bind_group_options.entries: binding 0, buffer.as_entire_binding(): the
\* intermediate buffer from offset 0 to its end.
BindGroupEntries ==
    << [binding |-> BindingSlot, buffer |-> IntermediateId, offset |-> 0,
        size |-> BufferSize(IntermediateId)] >>

\* let bind_group = device.create_bind_group(&bind_group_options);
CcsCreateBindGroup ==
    /\ pc = "ccs_create_bind_group"
    /\ bind_group' = BindGroupEntries
    /\ objects' = objects \cup {"bind-group"}
    /\ pc' = "ccs_begin_compute_pass"
    /\ UNCHANGED << hostVars, size_arg, initVars, buffers, encoder,
                    command_buffer, runVars >>

\* let mut pass = encoder.begin_compute_pass(&ComputePassDescriptor::default());
CcsBeginComputePass ==
    /\ pc = "ccs_begin_compute_pass"
    /\ encoder' = [encoder EXCEPT !.state = "in_pass", !.pass = << >>]
    /\ pc' = "ccs_set_pipeline"
    /\ UNCHANGED << hostVars, size_arg, initVars, buffers, objects,
                    bind_group, command_buffer, runVars >>

\* pass.set_pipeline(&compute_pipeline);
CcsSetPipeline ==
    /\ pc = "ccs_set_pipeline"
    /\ encoder' = [encoder EXCEPT
                     !.pass = Append(@, Cmd("set_pipeline", << >>, << >>))]
    /\ pc' = "ccs_set_bind_group"
    /\ UNCHANGED << hostVars, size_arg, initVars, buffers, objects,
                    bind_group, command_buffer, runVars >>

\* pass.set_bind_group(0, &bind_group, &[]): the slot, then the buffers the
\* group binds.
CcsSetBindGroup ==
    /\ pc = "ccs_set_bind_group"
    /\ encoder' = [encoder EXCEPT
                     !.pass = Append(@,
                        Cmd("set_bind_group",
                            << BindingSlot >> \o
                               [i \in 1 .. Len(bind_group) |->
                                   bind_group[i].buffer],
                            << >>))]
    /\ pc' = "ccs_dispatch_workgroups"
    /\ UNCHANGED << hostVars, size_arg, initVars, buffers, objects,
                    bind_group, command_buffer, runVars >>

\* A variant of the statement below: pass.dispatch_workgroups(1, 1, 1).
CcsDispatchWorkgroups_OneEach ==
    /\ pc = "ccs_dispatch_workgroups"
    /\ encoder' = [encoder EXCEPT
                     !.pass = Append(@,
                        Cmd("dispatch_workgroups", << 1, 1, 1 >>, << >>))]
    /\ pc' = "ccs_end_pass"
    /\ UNCHANGED << hostVars, size_arg, initVars, buffers, objects,
                    bind_group, command_buffer, runVars >>

\* pass.dispatch_workgroups(1, 0, 0);
CcsDispatchWorkgroups ==
    /\ pc = "ccs_dispatch_workgroups"
    /\ encoder' = [encoder EXCEPT
                     !.pass = Append(@,
                        Cmd("dispatch_workgroups",
                            << DispatchX, DispatchY, DispatchZ >>, << >>))]
    /\ pc' = "ccs_end_pass"
    /\ UNCHANGED << hostVars, size_arg, initVars, buffers, objects,
                    bind_group, command_buffer, runVars >>

\* A variant of the statement below: the pass is not scoped, so it is still
\* open when the statements after the block run.
CcsEndPass_StillOpen ==
    /\ pc = "ccs_end_pass"
    /\ pc' = "ccs_copy_buffer_to_buffer"
    /\ UNCHANGED << hostVars, size_arg, initVars, buffers, objects,
                    bind_group, encoder, command_buffer, runVars >>

\* The closing brace of the block: `pass` is dropped, which ends the pass
\* and records it on the encoder.
CcsEndPass ==
    /\ pc = "ccs_end_pass"
    /\ encoder' = [state |-> "recording",
                   cmds |-> Append(encoder.cmds,
                                   Cmd("compute_pass", << >>, encoder.pass)),
                   pass |-> << >>]
    /\ pc' = "ccs_copy_buffer_to_buffer"
    /\ UNCHANGED << hostVars, size_arg, initVars, buffers, objects,
                    bind_group, command_buffer, runVars >>

\* encoder.copy_buffer_to_buffer(&buffer, 0, output, 0, output.size());
CcsCopyBufferToBuffer ==
    /\ pc = "ccs_copy_buffer_to_buffer"
    /\ encoder' = [encoder EXCEPT
                     !.cmds = Append(@, Cmd("copy_buffer_to_buffer",
                                            << IntermediateId, 0, OutputId, 0,
                                               BufferSize(OutputId) >>,
                                            << >>))]
    /\ pc' = "ccs_finish"
    /\ UNCHANGED << hostVars, size_arg, initVars, buffers, objects,
                    bind_group, command_buffer, runVars >>

\* encoder.finish(), the value construct_compute_shader returns.
CcsFinish ==
    /\ pc = "ccs_finish"
    /\ command_buffer' = << encoder.cmds >>
    /\ encoder' = [encoder EXCEPT !.state = "finished"]
    /\ pc' = "submit"
    /\ UNCHANGED << hostVars, size_arg, initVars, buffers, objects,
                    bind_group, runVars >>

----------------------------------------------------------------------------
(* The GPU timeline: what the recorded commands do when they execute. *)

\* One workgroup of the compute shader main.wgsl, which writes the storage
\* buffer bound at slot 0.
ShaderWorkgroup(data) == [i \in DOMAIN data |-> (data[i] + 1) % 256]

RECURSIVE RunWorkgroups(_, _)
RunWorkgroups(n, data) ==
    IF n <= 0 THEN data ELSE RunWorkgroups(n - 1, ShaderWorkgroup(data))

\* dispatch_workgroups(x, y, z) launches x * y * z workgroups.
Workgroups(args) == args[1] * args[2] * args[3]

\* The commands of a compute pass, in order; `bound` is the buffers of the
\* bind group set last.
RECURSIVE ExecPass(_, _, _)
ExecPass(body, bound, bufs) ==
    IF body = << >>
    THEN bufs
    ELSE LET c == Head(body) IN
         CASE c.op = "set_bind_group" ->
                  ExecPass(Tail(body), Tail(c.args), bufs)
           [] c.op = "dispatch_workgroups" ->
                  ExecPass(Tail(body), bound,
                           IF bound = << >>
                           THEN bufs
                           ELSE [bufs EXCEPT ![bound[1]].data =
                                    RunWorkgroups(Workgroups(c.args), @)])
           [] OTHER -> ExecPass(Tail(body), bound, bufs)

\* copy_buffer_to_buffer(src, src_offset, dst, dst_offset, size)
ExecCopy(args, bufs) ==
    LET src    == args[1]
        srcOff == args[2]
        dst    == args[3]
        dstOff == args[4]
        n      == args[5]
    IN  [bufs EXCEPT ![dst].data =
            [i \in DOMAIN bufs[dst].data |->
                IF i > dstOff /\ i <= dstOff + n
                THEN bufs[src].data[i - dstOff + srcOff]
                ELSE bufs[dst].data[i]]]

ExecCommand(c, bufs) ==
    CASE c.op = "compute_pass" -> ExecPass(c.body, << >>, bufs)
      [] c.op = "copy_buffer_to_buffer" -> ExecCopy(c.args, bufs)
      [] OTHER -> bufs

\* The commands of a submission: those of its command buffers, in order.
RECURSIVE Flatten(_)
Flatten(cbs) == IF cbs = << >> THEN << >> ELSE Head(cbs) \o Flatten(Tail(cbs))

\* The submission the GPU is working on, if any.
GpuBusy == gpu.completed < Len(queue)

\* The GPU executes the next command of the oldest unfinished submission, or
\* signals that submission complete once all its commands have executed.
GpuExecute ==
    /\ pc # "exited"
    /\ GpuBusy
    /\ LET cmds == Flatten(queue[gpu.completed + 1].command_buffers) IN
          IF gpu.executed < Len(cmds)
          THEN /\ buffers' = ExecCommand(cmds[gpu.executed + 1], buffers)
               /\ gpu' = [gpu EXCEPT !.executed = @ + 1]
          ELSE /\ buffers' = buffers
               /\ gpu' = [completed |-> gpu.completed + 1, executed |-> 0]
    /\ UNCHANGED << pc, hostVars, size_arg, initVars, recVars, queue, index,
                    polls, callbacks, range_reads >>

----------------------------------------------------------------------------
(* real_main, from the submit on *)

\* A variant of the statement below: the command buffer is submitted, and
\* the queue is then submitted to again with nothing.
Submit_Twice ==
    /\ pc = "submit"
    /\ queue' = queue \o
                  << [index |-> Len(queue) + 1,
                      command_buffers |-> << command_buffer[1] >>],
                     [index |-> Len(queue) + 2, command_buffers |-> << >>] >>
    /\ index' = << Len(queue) + 2 >>
    /\ pc' = "poll_index"
    /\ UNCHANGED << hostVars, size_arg, initVars, buffers, recVars, gpu,
                    polls, callbacks, range_reads >>

\* let index = queue.submit(std::iter::once(construct_compute_shader(..)));
Submit ==
    /\ pc = "submit"
    /\ queue' = Append(queue, [index |-> Len(queue) + 1,
                               command_buffers |-> << command_buffer[1] >>])
    /\ index' = << Len(queue) + 1 >>
    /\ pc' = "poll_index"
    /\ UNCHANGED << hostVars, size_arg, initVars, buffers, recVars, gpu,
                    polls, callbacks, range_reads >>

\* A variant of the statement below: device.poll(PollType::Poll), which
\* returns without waiting for the submission.
PollIndexOk_NoWait ==
    /\ pc = "poll_index"
    /\ polls' = Append(polls, "Ok")
    /\ pc' = "print_marker"
    /\ UNCHANGED << hostVars, size_arg, initVars, buffers, recVars, queue,
                    gpu, index, callbacks, range_reads >>

\* device.poll(PollType::WaitForSubmissionIndex(index)) returning Ok: the
\* call blocks until the submission with that index has completed.
PollIndexOk ==
    /\ pc = "poll_index"
    /\ gpu.completed >= index[1]
    /\ polls' = Append(polls, "Ok")
    /\ pc' = "print_marker"
    /\ UNCHANGED << hostVars, size_arg, initVars, buffers, recVars, queue,
                    gpu, index, callbacks, range_reads >>

\* A variant of the statement below without the `?`: the poll's error is
\* dropped and the program goes on to print the marker line.
PollIndexErr_Ignored ==
    /\ pc = "poll_index"
    /\ polls' = Append(polls, "Err")
    /\ pc' = "print_marker"
    /\ UNCHANGED << hostVars, size_arg, initVars, buffers, recVars, queue,
                    gpu, index, callbacks, range_reads >>

\* device.poll(PollType::WaitForSubmissionIndex(index))? on Err
PollIndexErr ==
    /\ pc = "poll_index"
    /\ polls' = Append(polls, "Err")
    /\ ret' = "PollError"
    /\ pc' = "main_return"
    /\ UNCHANGED << exitCode, stdout, stderr, size_arg, initVars, buffers,
                    recVars, queue, gpu, index, callbacks, range_reads >>

\* println!("GPU Completed");
PrintMarker ==
    /\ pc = "print_marker"
    /\ stdout' = Append(stdout, MarkerLine)
    /\ pc' = "map_async"
    /\ UNCHANGED << ret, exitCode, stderr, size_arg, initVars, buffers,
                    recVars, runVars >>

\* output.map_async(MapMode::Read, .., callback): the request is pending
\* until a poll services it.
MapAsync ==
    /\ pc = "map_async"
    /\ buffers' = [buffers EXCEPT ![OutputId].map_state = "pending"]
    /\ pc' = "poll_wait"
    /\ UNCHANGED << hostVars, size_arg, initVars, recVars, runVars >>

\* A variant of the closure below without the `return` of its error branch:
\* after the diagnostic line it goes on to read and print the range.
MapCallback_NoReturn ==
    /\ pc = "poll_wait"
    /\ ~GpuBusy
    /\ buffers[OutputId].map_state = "pending"
    /\ \E result \in {"Ok", "Err"} :
          /\ callbacks' = Append(callbacks, result)
          /\ stderr' = IF result = "Err"
                       THEN Append(stderr,
                                   TextLine("", DisplayFmt("BufferAsyncError")))
                       ELSE stderr
          /\ buffers' = [buffers EXCEPT ![OutputId].map_state =
                            IF result = "Err" THEN "unmapped" ELSE "mapped"]
          /\ range_reads' = Append(range_reads, OutputId)
          /\ stdout' = Append(stdout, DumpLine(buffers[OutputId].data))
    /\ UNCHANGED << pc, ret, exitCode, size_arg, initVars, recVars, queue,
                    gpu, index, polls >>

\* The closure given to map_async, run by the final poll with the result of
\* the mapping: on Err it writes the error's Display text to stderr and
\* returns; on Ok it prints the mapped range of the output buffer.
MapCallback ==
    /\ pc = "poll_wait"
    /\ ~GpuBusy
    /\ buffers[OutputId].map_state = "pending"
    /\ \E result \in {"Ok", "Err"} :
          /\ callbacks' = Append(callbacks, result)
          /\ IF result = "Err"
             THEN /\ stderr' = Append(stderr,
                                      TextLine("", DisplayFmt("BufferAsyncError")))
                  /\ buffers' = [buffers EXCEPT ![OutputId].map_state = "unmapped"]
                  /\ UNCHANGED << stdout, range_reads >>
             ELSE /\ buffers' = [buffers EXCEPT ![OutputId].map_state = "mapped"]
                  /\ range_reads' = Append(range_reads, OutputId)
                  /\ stdout' = Append(stdout, DumpLine(buffers[OutputId].data))
                  /\ stderr' = stderr
    /\ UNCHANGED << pc, ret, exitCode, size_arg, initVars, recVars, queue,
                    gpu, index, polls >>

\* A variant of the statement below: device.poll(PollType::Poll), which
\* returns without waiting for the pending mapping to be serviced.
PollWaitOk_NoService ==
    /\ pc = "poll_wait"
    /\ polls' = Append(polls, "Ok")
    /\ pc' = "return_ok"
    /\ UNCHANGED << hostVars, size_arg, initVars, buffers, recVars, queue,
                    gpu, index, callbacks, range_reads >>

\* device.poll(PollType::Wait) returning Ok: outstanding work has drained
\* and the pending mapping has been serviced.
PollWaitOk ==
    /\ pc = "poll_wait"
    /\ ~GpuBusy
    /\ buffers[OutputId].map_state # "pending"
    /\ polls' = Append(polls, "Ok")
    /\ pc' = "return_ok"
    /\ UNCHANGED << hostVars, size_arg, initVars, buffers, recVars, queue,
                    gpu, index, callbacks, range_reads >>

\* A variant of the statement below without the `?`: the poll's error is
\* dropped and the program goes on to return Ok(()).
PollWaitErr_Ignored ==
    /\ pc = "poll_wait"
    /\ polls' = Append(polls, "Err")
    /\ pc' = "return_ok"
    /\ UNCHANGED << hostVars, size_arg, initVars, buffers, recVars, queue,
                    gpu, index, callbacks, range_reads >>

\* device.poll(PollType::Wait)? on Err
PollWaitErr ==
    /\ pc = "poll_wait"
    /\ polls' = Append(polls, "Err")
    /\ ret' = "PollError"
    /\ pc' = "main_return"
    /\ UNCHANGED << exitCode, stdout, stderr, size_arg, initVars, buffers,
                    recVars, queue, gpu, index, callbacks, range_reads >>

\* Ok(())
ReturnOk ==
    /\ pc = "return_ok"
    /\ ret' = "Ok"
    /\ pc' = "main_return"
    /\ UNCHANGED << exitCode, stdout, stderr, size_arg, initVars, buffers,
                    recVars, runVars >>

----------------------------------------------------------------------------
(* main: what the runtime does with the Result that real_main returned *)

\* async fn main() -> Result<(), Box<dyn Error>> { real_main().await }
\* Ok(()) exits with success; Err(e) writes "Error: {e:?}" to stderr and
\* exits with failure.
MainReturn ==
    /\ pc = "main_return"
    /\ IF ret = "Ok"
       THEN /\ exitCode' = << ExitSuccess >>
            /\ stderr' = stderr
       ELSE /\ exitCode' = << ExitFailure >>
            /\ stderr' = Append(stderr, TerminationLine(ret))
    /\ pc' = "exited"
    /\ UNCHANGED << ret, stdout, size_arg, initVars, buffers, recVars,
                    runVars >>

----------------------------------------------------------------------------

Next ==
    \/ InstanceNew
    \/ RequestAdapter
    \/ RequestDevice
    \/ CreateOutputBuffer
    \/ CcsCreateBuffer
    \/ CcsCreateShaderModule
    \/ CcsCreateBindGroupLayout
    \/ CcsCreatePipelineLayout
    \/ CcsCreateCommandEncoder
    \/ CcsCreateComputePipeline
    \/ CcsCreateBindGroup
    \/ CcsBeginComputePass
    \/ CcsSetPipeline
    \/ CcsSetBindGroup
    \/ CcsDispatchWorkgroups
    \/ CcsEndPass
    \/ CcsCopyBufferToBuffer
    \/ CcsFinish
    \/ Submit
    \/ GpuExecute
    \/ PollIndexOk
    \/ PollIndexErr
    \/ PrintMarker
    \/ MapAsync
    \/ MapCallback
    \/ PollWaitOk
    \/ PollWaitErr
    \/ ReturnOk
    \/ MainReturn

\* The program as written.
Spec == Init /\ [][Next]_vars

\* construct_compute_shader takes any output buffer: the same program with
\* the output buffer's size drawn from a set that holds the program's own.
OutputSizes == {w * SizeOfU32 : w \in 0 .. MaxWords} \cup {OutputBufferSize}

ParamInit == \E size \in OutputSizes : InitWith(size)

ParamSpec == ParamInit /\ [][Next]_vars

\* The program as written, with every enabled step eventually taken: the
\* host runs its statements one after the other on one thread, and the GPU
\* executes what was submitted.
FairSpec == Spec /\ WF_vars(Next)

----------------------------------------------------------------------------
(* Vocabulary of the properties. *)

Exited == exitCode # << >>

InitOk == adapter = "acquired" /\ device = "acquired"

InitFailed == ret \in {"NoAdapter", "NoDevice"}

DumpLines(out) == {i \in 1 .. Len(out) : out[i].kind = "bytes"}

Ops(cmds) == [i \in 1 .. Len(cmds) |-> cmds[i].op]

\* The statements of real_main after construct_compute_shader has returned.
AfterRecorder ==
    {"submit", "poll_index", "print_marker", "map_async", "poll_wait",
     "return_ok"}

\* The statements of real_main after the wait on the submission index.
AfterPollIndex == {"print_marker", "map_async", "poll_wait", "return_ok"}

----------------------------------------------------------------------------
(* C1 *)

C1_AllSucceeded ==
    /\ InitOk
    /\ polls = << "Ok", "Ok" >>
    /\ callbacks = << "Ok" >>

C1_Output ==
    /\ Len(stdout) = 2
    /\ stdout[1] = MarkerLine
    /\ stdout[2] = DumpLine(buffers[OutputId].data)
    /\ Len(stdout[2].bytes) = 48
    /\ stderr = << >>

\* C1: in a run where the adapter request, the device request, both polls
\* and the mapping succeed, standard output is the marker line followed by
\* one dump of the output buffer's 48 bytes, nothing is on standard error,
\* the program can only exit with success, and it does exit.
C1_SuccessfulRun ==
    /\ [](C1_AllSucceeded => C1_Output /\ exitCode \in {<< >>, << 0 >>})
    /\ (C1_AllSucceeded ~> (exitCode = << 0 >> /\ C1_Output))

C1_Witness == C1_AllSucceeded /\ exitCode = << 0 >> /\ Len(stdout) = 2

----------------------------------------------------------------------------
(* C2 *)

\* Nothing has been allocated on a device: no device was requested, and no
\* buffer, shader module, layout, pipeline, bind group or encoder exists;
\* nothing was submitted and nothing printed.
NoGpuResource ==
    /\ device = "unrequested"
    /\ buffers = << >>
    /\ objects = {}
    /\ bind_group = << >>
    /\ encoder = NoEncoder
    /\ command_buffer = << >>
    /\ queue = << >>
    /\ stdout = << >>

\* A line of standard error carries the text `text`.
Reported(text) == \E i \in 1 .. Len(stderr) : stderr[i].text = text

\* C2: when the adapter request returns nothing, initialize_gpu fails with
\* NoAdapter, the program exits non-zero with the message "Unable to find
\* GPU adapter!", and no GPU resource is allocated on that run.
C2_NoAdapterClaim ==
    (adapter = "absent" /\ Exited) =>
        /\ ret = "NoAdapter"
        /\ exitCode # << 0 >>
        /\ Reported("Unable to find GPU adapter!")
        /\ NoGpuResource

\* What the code does on that path: the Display text is never written; the
\* runtime writes the Debug rendering of the error main returned.
C2_NoAdapterObserved ==
    (adapter = "absent" /\ Exited) =>
        /\ ret = "NoAdapter"
        /\ exitCode = << 1 >>
        /\ stderr = << TextLine("Error: ", "NoAdapter") >>
        /\ NoGpuResource

----------------------------------------------------------------------------
(* C3 *)

\* C3: when the adapter request succeeds and the device request fails,
\* initialize_gpu fails with NoDevice (never NoAdapter), the program exits
\* non-zero with the message "Unable to find GPU device!", and no output
\* buffer is created, nothing is submitted and nothing is printed.
C3_NoDeviceClaim ==
    (adapter = "acquired" /\ device = "failed" /\ Exited) =>
        /\ ret = "NoDevice"
        /\ exitCode # << 0 >>
        /\ Reported("Unable to find GPU device!")
        /\ buffers = << >>
        /\ queue = << >>
        /\ stdout = << >>

\* What the code does on that path.
C3_NoDeviceObserved ==
    (adapter = "acquired" /\ device = "failed" /\ Exited) =>
        /\ ret = "NoDevice"
        /\ exitCode = << 1 >>
        /\ stderr = << TextLine("Error: ", "NoDevice") >>
        /\ buffers = << >>
        /\ queue = << >>
        /\ stdout = << >>

----------------------------------------------------------------------------
(* C4 *)

CallbackLine == TextLine("", DisplayFmt("BufferAsyncError"))

CallbackGotError == callbacks = << "Err" >>

\* What the callback itself does with an error: one diagnostic line with
\* the error's Display text, no dump, no read of the mapped range, and the
\* error is not what real_main returns.
C4_CallbackEffect ==
    /\ Len(stderr) >= 1
    /\ stderr[1] = CallbackLine
    /\ \A i \in 2 .. Len(stderr) : stderr[i] # CallbackLine
    /\ DumpLines(stdout) = {}
    /\ range_reads = << >>
    /\ buffers[OutputId].map_state # "mapped"
    /\ ret # "BufferAsyncError"

\* C4 as stated: whenever the mapping callback receives an error, standard
\* error holds exactly one line, no dump is printed, the mapped range is not
\* read, and the program exits with code 0.
C4_MappingErrorClaim ==
    (CallbackGotError /\ Exited) =>
        /\ C4_CallbackEffect
        /\ Len(stderr) = 1
        /\ exitCode = << 0 >>

\* C4 as amended: the callback's error costs one diagnostic line and no
\* more; the exit code is 0 when the final poll then returns Ok, and when
\* that poll fails the program exits non-zero with the runtime's report of
\* the poll error as a second line.
C4_MappingError ==
    CallbackGotError =>
        /\ C4_CallbackEffect
        /\ (Exited /\ polls = << "Ok", "Ok" >>) =>
               (exitCode = << 0 >> /\ stderr = << CallbackLine >>)
        /\ (Exited /\ polls = << "Ok", "Err" >>) =>
               (exitCode = << 1 >> /\
                stderr = << CallbackLine, TerminationLine("PollError") >>)
        /\ polls \in {<< "Ok" >>, << "Ok", "Ok" >>, << "Ok", "Err" >>}

C4_Witness ==
    CallbackGotError /\ exitCode = << 0 >> /\ stderr = << CallbackLine >>

----------------------------------------------------------------------------
(* C5 *)

\* C5: a failure of either poll is what real_main returns, at once, and the
\* program then exits non-zero; exit code 0 is returned only when the
\* adapter, the device and both polls succeeded.
C5_PollFailure ==
    /\ (\E i \in 1 .. Len(polls) : polls[i] = "Err") =>
           /\ ret = "PollError"
           /\ pc \in {"main_return", "exited"}
           /\ polls[Len(polls)] = "Err"
           /\ Exited => exitCode = << 1 >>
    /\ exitCode = << 0 >> => (InitOk /\ polls = << "Ok", "Ok" >>)
    /\ (Exited /\ exitCode # << 0 >>) =>
           (~InitOk \/ polls \in {<< "Err" >>, << "Ok", "Err" >>})

C5_Witness == polls = << "Ok", "Err" >> /\ exitCode = << 1 >>

----------------------------------------------------------------------------
(* C6 *)

\* The copy the recorder encodes.
IsWholeCopy(c) == c.op = "copy_buffer_to_buffer" /\ c.args[1] = IntermediateId
                  /\ c.args[3] = OutputId

\* C6: the command buffer holds exactly one compute pass and then exactly
\* one copy from the intermediate buffer to the output buffer; while the
\* pass is open the encoder has recorded nothing, the copy is on the encoder
\* only once the pass has ended and been recorded before it, and the encoder
\* is finished only with the copy as its last command.
C6_PassThenCopy ==
    /\ encoder.state = "in_pass" => encoder.cmds = << >>
    /\ \A i \in 1 .. Len(encoder.cmds) :
          encoder.cmds[i].op = "copy_buffer_to_buffer" =>
              /\ encoder.state # "in_pass"
              /\ i = 2
              /\ encoder.cmds[1].op = "compute_pass"
    /\ encoder.pass # << >> => encoder.state = "in_pass"
    /\ encoder.state = "finished" =>
          /\ Ops(encoder.cmds) = << "compute_pass", "copy_buffer_to_buffer" >>
          /\ IsWholeCopy(encoder.cmds[2])
          /\ command_buffer = << encoder.cmds >>
    /\ command_buffer # << >> =>
          /\ encoder.state = "finished"
          /\ Ops(command_buffer[1]) =
                 << "compute_pass", "copy_buffer_to_buffer" >>
          /\ Ops(command_buffer[1][1].body) =
                 << "set_pipeline", "set_bind_group", "dispatch_workgroups" >>

C6_Witness ==
    /\ command_buffer # << >>
    /\ Len(command_buffer[1]) = 2
    /\ encoder.state = "finished"

----------------------------------------------------------------------------
(* C7 *)

\* C7: the queue is submitted to at most once on any path; once the submit
\* statement has run there is exactly one submission, of exactly one command
\* buffer, the one the recorder returned; a run whose initialization fails
\* submits nothing.
C7_OneSubmission ==
    /\ Len(queue) <= 1
    /\ (pc \in AfterRecorder \ {"submit"} \/ polls # << >>) =>
          /\ Len(queue) = 1
          /\ Len(queue[1].command_buffers) = 1
          /\ queue[1].command_buffers = command_buffer
    /\ (Exited /\ InitOk) => Len(queue) = 1
    /\ ~InitOk => queue = << >>
    /\ pc = "submit" => queue = << >>

C7_Witness == Exited /\ InitOk /\ Len(queue) = 1 /\ polls = << "Ok", "Ok" >>

----------------------------------------------------------------------------
(* C8 *)

\* The copy commands on the encoder.
Copies ==
    {i \in 1 .. Len(encoder.cmds) : encoder.cmds[i].op = "copy_buffer_to_buffer"}

\* C8: for every size of the output buffer, the intermediate buffer has the
\* output buffer's size from its creation on, in particular when the copy is
\* encoded, and the copy goes from offset 0 of the intermediate buffer to
\* offset 0 of the output buffer over the output buffer's whole size.
C8_SizesAgree ==
    /\ Len(buffers) >= IntermediateId =>
          /\ buffers[IntermediateId].size = buffers[OutputId].size
          /\ buffers[OutputId].size = size_arg
    /\ \A i \in Copies :
          /\ Len(buffers) >= IntermediateId
          /\ encoder.cmds[i].args =
                << IntermediateId, 0, OutputId, 0, buffers[OutputId].size >>
          /\ encoder.cmds[i].args[5] = buffers[IntermediateId].size

C8_Witness ==
    /\ Copies # {}
    /\ size_arg # OutputBufferSize
    /\ size_arg > 0
    /\ buffers[IntermediateId].size = size_arg

----------------------------------------------------------------------------
(* C10 *)

\* The submission that `index` names has completed on the GPU: all of its
\* commands have executed and its completion has been signalled.
SubmissionCompleted ==
    /\ index # << >>
    /\ Len(queue) = 1
    /\ index[1] = queue[1].index
    /\ gpu.completed >= queue[1].index

\* C10: the marker line is printed, and the mapping of the output buffer is
\* requested, only after the submission whose index the single submit
\* returned has completed on the GPU; that index is the one waited on.
C10_WaitBeforeReadback ==
    (\/ pc \in AfterPollIndex
     \/ stdout # << >>
     \/ Len(polls) >= 1 /\ polls[1] = "Ok"
     \/ Len(buffers) >= OutputId /\ buffers[OutputId].map_state # "unmapped"
     \/ callbacks # << >>)
        => SubmissionCompleted

C10_Witness ==
    /\ stdout = << MarkerLine >>
    /\ buffers[OutputId].map_state = "pending"
    /\ SubmissionCompleted

----------------------------------------------------------------------------
(* C11 *)

\* The statements from the final poll on.
FromPollWait == {"poll_wait", "return_ok", "main_return", "exited"}

\* The callback has run: after the marker line was printed, at or after the
\* final poll; a final poll that returned Ok has run it; what it printed
\* stands after the marker line.
C11_CallbackPlaced ==
    /\ callbacks # << >> =>
          /\ pc \in FromPollWait
          /\ Len(stdout) >= 1
          /\ stdout[1] = MarkerLine
    /\ \A i \in DumpLines(stdout) : i > 1 /\ stdout[1] = MarkerLine
    /\ Reported(CallbackLine.text) => (stdout # << >> /\ stdout[1] = MarkerLine)
    /\ (Len(polls) = 2 /\ polls[2] = "Ok") => Len(callbacks) = 1
    /\ pc = "return_ok" => buffers[OutputId].map_state # "pending"

\* C11: the mapping callback runs only inside the final poll, that is after
\* the mapping request was issued and before that poll has returned; it does
\* not interleave with another statement of the program; a final poll that
\* returns Ok has run it; and whatever it writes comes after the marker line
\* and before the program exits, after which nothing more is written.
C11_CallbackInFinalPoll ==
    /\ []C11_CallbackPlaced
    /\ [][callbacks' # callbacks =>
             /\ pc = "poll_wait"
             /\ pc' = "poll_wait"
             /\ buffers[OutputId].map_state = "pending"
             /\ buffers'[OutputId].map_state # "pending"
             /\ Len(polls) = 1
             /\ polls' = polls
             /\ ~Exited]_vars
    /\ [][(pc # "poll_wait" /\ pc # "print_marker") =>
             (stdout' = stdout /\ callbacks' = callbacks)]_vars
    /\ [][Exited => (stdout' = stdout /\ stderr' = stderr)]_vars

C11_Witness ==
    /\ callbacks = << "Ok" >>
    /\ pc = "poll_wait"
    /\ Len(stdout) = 2
    /\ polls = << "Ok" >>

----------------------------------------------------------------------------
(* C12 *)

\* The dispatches recorded so far: on the open pass, and in the passes
\* already on the encoder.
RECURSIVE DispatchesOf(_)
DispatchesOf(cmds) ==
    IF cmds = << >>
    THEN {}
    ELSE LET c == Head(cmds) IN
         (IF c.op = "dispatch_workgroups" THEN {c.args} ELSE {})
            \cup DispatchesOf(c.body) \cup DispatchesOf(Tail(cmds))

Dispatches == DispatchesOf(encoder.pass) \cup DispatchesOf(encoder.cmds)

\* The submitted command buffer has executed to its end.
CommandBufferExecuted == Len(queue) = 1 /\ gpu.completed >= 1

\* C12: the one dispatch recorded has counts (1, 0, 0), which launch
\* 1 * 0 * 0 = 0 workgroups, so the shader never writes the intermediate
\* buffer; once the command buffer has executed, the 48 bytes of the output
\* buffer are the bytes the intermediate buffer was created with.
C12_ZeroWorkgroups ==
    /\ \A d \in Dispatches : d = << 1, 0, 0 >> /\ Workgroups(d) = 0
    /\ pc \in AfterRecorder => Cardinality(Dispatches) = 1
    /\ Len(buffers) >= IntermediateId =>
          buffers[IntermediateId].data = buffers[IntermediateId].initial
    /\ CommandBufferExecuted =>
          /\ buffers[OutputId].data = buffers[IntermediateId].initial
          /\ Len(buffers[OutputId].data) = 48
    /\ \A i \in DumpLines(stdout) :
          stdout[i].bytes = buffers[IntermediateId].initial

C12_Witness ==
    /\ CommandBufferExecuted
    /\ buffers[OutputId].initial # buffers[IntermediateId].initial
    /\ buffers[OutputId].data = buffers[IntermediateId].initial
    /\ DumpLines(stdout) # {}

----------------------------------------------------------------------------
(* C13 *)

\* The host holds, or has asked for, a mapping of the output buffer.
HostMapping ==
    /\ Len(buffers) >= OutputId
    /\ buffers[OutputId].map_state \in {"pending", "mapped"}

\* The mapping of the output buffer has been requested at some point.
MappingRequested == HostMapping \/ callbacks # << >>

\* A submission holds a command that writes the output buffer.
WritesOutput(sub) ==
    \E c \in {Flatten(sub.command_buffers)[i] :
                 i \in 1 .. Len(Flatten(sub.command_buffers))} :
        c.op = "copy_buffer_to_buffer" /\ c.args[3] = OutputId

\* The submissions that write the output buffer and have not completed.
PendingWrites ==
    {i \in 1 .. Len(queue) : i > gpu.completed /\ WritesOutput(queue[i])}

\* C13: while the output buffer is mapped, or its mapping is pending, no
\* submission that writes it is unfinished and the GPU does not change its
\* bytes; and once the mapping has been requested nothing more is submitted.
C13_GpuHostExclusion ==
    /\ [](HostMapping => (PendingWrites = {} /\ ~GpuBusy))
    /\ [][HostMapping =>
             buffers'[OutputId].data = buffers[OutputId].data]_vars
    /\ [][MappingRequested => queue' = queue]_vars

C13_Witness ==
    /\ HostMapping
    /\ buffers[OutputId].map_state = "mapped"
    /\ Len(queue) = 1
    /\ WritesOutput(queue[1])
    /\ gpu.completed = 1

----------------------------------------------------------------------------
(* C14 *)

BufferIds == 1 .. Len(buffers)

\* The buffers that a bind group entry, or a set_bind_group command recorded
\* on the open pass, binds at slot 0.
BoundAtSlot0 ==
    {bind_group[i].buffer :
        i \in {j \in 1 .. Len(bind_group) : bind_group[j].binding = 0}}
    \cup {encoder.pass[i].args[2] :
            i \in {j \in 1 .. Len(encoder.pass) :
                      /\ encoder.pass[j].op = "set_bind_group"
                      /\ encoder.pass[j].args[1] = 0
                      /\ Len(encoder.pass[j].args) >= 2}}

\* The buffers the host has mapped, asked to map, or read a mapped range of.
HostMapped ==
    {b \in BufferIds : buffers[b].map_state # "unmapped"}
    \cup {range_reads[i] : i \in 1 .. Len(range_reads)}

\* C14: the output buffer is created with exactly MAP_READ and COPY_DST and
\* unmapped, the intermediate buffer with exactly STORAGE and COPY_SRC; no
\* buffer has both MAP_READ and STORAGE; the bind group binds the
\* intermediate buffer and nothing else at slot 0; and the host maps no
\* buffer but the output buffer.
C14_BufferCapabilities ==
    /\ Len(buffers) <= IntermediateId
    /\ Len(buffers) >= OutputId =>
          /\ buffers[OutputId].label = "output-buffer"
          /\ buffers[OutputId].usage = {"MAP_READ", "COPY_DST"}
          /\ buffers[OutputId].mapped_at_creation = FALSE
    /\ Len(buffers) >= IntermediateId =>
          /\ buffers[IntermediateId].label = "buffer-intermediate"
          /\ buffers[IntermediateId].usage = {"STORAGE", "COPY_SRC"}
          /\ buffers[IntermediateId].mapped_at_creation = FALSE
    /\ \A b \in BufferIds : ~({"MAP_READ", "STORAGE"} \subseteq buffers[b].usage)
    /\ BoundAtSlot0 \subseteq {IntermediateId}
    /\ bind_group # << >> =>
          (Len(bind_group) = 1 /\ BoundAtSlot0 = {IntermediateId})
    /\ HostMapped \subseteq {OutputId}
    /\ \A b \in BoundAtSlot0 : "STORAGE" \in buffers[b].usage
    /\ \A b \in HostMapped : "MAP_READ" \in buffers[b].usage

C14_Witness ==
    /\ BoundAtSlot0 = {IntermediateId}
    /\ HostMapped = {OutputId}
    /\ range_reads = << OutputId >>

----------------------------------------------------------------------------
(* C15 *)

FirstPollFailed == Len(polls) >= 1 /\ polls[1] = "Err"

\* C15: when the wait on the submission index fails, the program returns
\* the poll's error at once and exits non-zero with nothing on standard
\* output, no mapping of the output buffer requested, no callback run and no
\* second poll; so a marker line on standard output means the first poll
\* returned Ok.
C15_FirstPollFailure ==
    /\ FirstPollFailed =>
          /\ polls = << "Err" >>
          /\ ret = "PollError"
          /\ pc \in {"main_return", "exited"}
          /\ stdout = << >>
          /\ buffers[OutputId].map_state = "unmapped"
          /\ callbacks = << >>
          /\ range_reads = << >>
          /\ Exited =>
                (exitCode = << 1 >> /\ stderr = << TerminationLine("PollError") >>)
    /\ (\E i \in 1 .. Len(stdout) : stdout[i] = MarkerLine) =>
          (Len(polls) >= 1 /\ polls[1] = "Ok")

C15_Witness ==
    /\ FirstPollFailed
    /\ exitCode = << 1 >>
    /\ Len(queue) = 1
    /\ stdout = << >>

----------------------------------------------------------------------------
(* C16 *)

\* The diagnostic lines of the callback on standard error.
DiagnosticLines == {i \in 1 .. Len(stderr) : stderr[i] = CallbackLine}

\* What the callback has written and read, against the results it was given.
C16_CallbackOutput ==
    /\ Len(callbacks) <= 1
    /\ Cardinality(DumpLines(stdout)) + Cardinality(DiagnosticLines)
          = Len(callbacks)
    /\ DumpLines(stdout) # {} => callbacks = << "Ok" >>
    /\ DiagnosticLines # {} => callbacks = << "Err" >>
    /\ \A i \in DumpLines(stdout) :
          \E j \in 1 .. (i - 1) : stdout[j] = MarkerLine
    /\ Len(range_reads) <= 1
    /\ range_reads # << >> =>
          /\ range_reads = << OutputId >>
          /\ callbacks = << "Ok" >>
          /\ buffers[OutputId].map_state = "mapped"

\* C16: the mapping callback runs at most once per run, so the run has a
\* dump line, or a diagnostic line of the callback, or neither, and never
\* both; a dump line always has the marker line before it; and the mapped
\* range of the output buffer is read only in the step in which the callback
\* is handed Ok.
C16_CallbackAtMostOnce ==
    /\ []C16_CallbackOutput
    /\ [][range_reads' # range_reads =>
             /\ callbacks' = Append(callbacks, "Ok")
             /\ range_reads' = Append(range_reads, OutputId)]_vars
    /\ [][callbacks # << >> => callbacks' = callbacks]_vars

C16_Witness ==
    /\ Exited
    /\ callbacks = << "Err" >>
    /\ DiagnosticLines = {1}
    /\ DumpLines(stdout) = {}
    /\ stdout = << MarkerLine >>

====
